---- MODULE Spec2Model ----
(***************************************************************************)
(* Model of the user self-provisioning service (src/registration/app.py). *)
(*                                                                         *)
(* State: the two SQLite tables (registration_requests, audit_log), the    *)
(* AUTOINCREMENT counter of registration_requests, the lldap directory,    *)
(* the mail transport and the e-mail log file, the HTTP calls in flight    *)
(* and the call that returned last.                                        *)
(*                                                                         *)
(* Every call opens a connection of its own (get_db) and takes no lock:    *)
(* the store orders statements and commits, never whole calls.  A call is  *)
(* therefore a sequence of steps, one per SQL transaction, directory       *)
(* command or part of the SMTP session (up to send_message, then quit),    *)
(* and the steps of calls in flight together interleave, as they           *)
(* do when the application is served by more than one worker on the same   *)
(* database file.  (Inside one event loop the handlers have no suspension  *)
(* point between their first and last statement; that ordering comes from  *)
(* the server, not from the store or from this code.)                      *)
(*                                                                         *)
(* sqlite3 opens a transaction at the first INSERT and closes it at        *)
(* commit(), so a SELECT is a step of its own and an INSERT (or INSERT +   *)
(* DELETE) with its commit is one step.                                    *)
(*                                                                         *)
(* Strings are sequences of characters, a character is a one-letter        *)
(* string.  The columns ip_address, user_agent, created_at and reviewed_at *)
(* are copied or stamped and never read; they are left out of the rows.    *)
(*                                                                         *)
(* Spec is the service from an empty database.  SpecStored is the          *)
(* approval of a request the database already holds, the directory empty   *)
(* or holding its username.  SpecEscape and SpecUsername apply             *)
(* escape_ldap_dn and validate_username_strict on their own to every       *)
(* string of a bounded set.                                                *)
(***************************************************************************)
EXTENDS Integers, Sequences, FiniteSets, TLC

(* ---- bounds of the model ---------------------------------------------- *)
\* calls in flight at the same time
NProcs == 2
\* calls started in one behaviour
MaxCalls == 3

Procs == 1..NProcs

(* ---- characters and Python's str predicates --------------------------- *)
AsciiLower == {"a", "b", "c", "l", "o", "x"}
AsciiUpper == {"A", "B"}
AsciiDigit == {"1"}
\* characters outside ASCII: a lowercase letter, and a digit that is no letter
OtherLower == {"é"}
OtherDigit == {"²"}
Whitespace == {" "}

\* str.isalpha, per character
IsAlpha(c) == c \in AsciiLower \cup AsciiUpper \cup OtherLower
\* str.isalnum, per character
IsAlnum(c) == IsAlpha(c) \/ c \in AsciiDigit \cup OtherDigit
\* a cased character that is not lowercase
IsUpper(c) == c \in AsciiUpper
\* a cased character that is lowercase
IsLower(c) == c \in AsciiLower \cup OtherLower

\* str.lower, per character
LowerChar(c) == CASE c = "A" -> "a" [] c = "B" -> "b" [] OTHER -> c
\* str.lower
Lower(s) == [i \in 1..Len(s) |-> LowerChar(s[i])]

\* str.strip: whitespace removed at both ends
RECURSIVE LStrip(_)
LStrip(s) == IF s # <<>> /\ Head(s) \in Whitespace THEN LStrip(Tail(s)) ELSE s
RECURSIVE RStrip(_)
RStrip(s) == IF s # <<>> /\ s[Len(s)] \in Whitespace
             THEN RStrip(SubSeq(s, 1, Len(s) - 1)) ELSE s
Strip(s) == RStrip(LStrip(s))

\* str.replace(c, '')
RECURSIVE Remove(_, _)
Remove(s, c) == IF s = <<>> THEN <<>>
                ELSE IF Head(s) = c THEN Remove(Tail(s), c)
                ELSE <<Head(s)>> \o Remove(Tail(s), c)
\* number of occurrences of c in s
Count(s, c) == Cardinality({i \in 1..Len(s) : s[i] = c})
\* str.isalnum: not empty and every character alphanumeric
StrIsAlnum(s) == s # <<>> /\ \A i \in 1..Len(s) : IsAlnum(s[i])
\* str.islower: at least one cased character and no cased character uppercase
StrIsLower(s) == /\ \E i \in 1..Len(s) : IsLower(s[i])
                 /\ \A i \in 1..Len(s) : ~IsUpper(s[i])

(* ---- validators ------------------------------------------------------- *)
MinUsernameLen == 2
MaxUsernameLen == 64
MaxEmailLen == 255
MaxNameLen == 100

validate_username_strict(username) ==
    IF username = <<>> \/ Len(username) < MinUsernameLen
                       \/ Len(username) > MaxUsernameLen THEN FALSE
    ELSE IF ~StrIsAlnum(Remove(username, "_")) \/ ~StrIsLower(username) THEN FALSE
    ELSE IF ~IsAlpha(username[1]) THEN FALSE
    ELSE TRUE

\* index of the first "@" of an e-mail that has one
AtPos(email) == CHOOSE i \in 1..Len(email) :
                    email[i] = "@" /\ \A j \in 1..(i - 1) : email[j] # "@"

validate_email_basic(email) ==
    IF email = <<>> \/ Count(email, "@") = 0 THEN FALSE
    ELSE IF Len(email) > MaxEmailLen THEN FALSE
    ELSE IF Count(email, "@") # 1 THEN FALSE
    ELSE LET local == SubSeq(email, 1, AtPos(email) - 1)
             domain == SubSeq(email, AtPos(email) + 1, Len(email))
         IN  ~(local = <<>> \/ domain = <<>> \/ Count(domain, ".") = 0)

\* the name check of create_lldap_user
NamesOk(first_name, last_name) ==
    ~(first_name = <<>> \/ Len(first_name) > MaxNameLen
      \/ last_name = <<>> \/ Len(last_name) > MaxNameLen)

(* ---- configuration (environment) and inputs --------------------------- *)
\* ADMIN_EMAIL when it is set
AdminAddress == <<"o", "@", "b", ".", "c">>
\* default of the Remote-User header and of the reject form's reason
UnknownUser == "unknown"
DefaultRejectReason == "No reason provided"
\* SQL NULL
Null == "NULL"

LongName == [i \in 1..(MaxNameLen + 1) |-> "x"]

\* form submissions, as posted (before strip and lower)
Candidates ==
    { [username |-> <<" ", "A", "l">>, email |-> <<"a", "@", "b", ".", "c">>,
       first_name |-> <<"A">>, last_name |-> <<"l">>, reason |-> <<"x">>],
      [username |-> <<"a", "l">>, email |-> <<"x", "@", "b", ".", "c">>,
       first_name |-> <<"A">>, last_name |-> <<"l">>, reason |-> <<>>],
      [username |-> <<"b", "o">>, email |-> <<"A", "@", "b", ".", "c", " ">>,
       first_name |-> <<"B">>, last_name |-> <<"o">>, reason |-> <<>>],
      [username |-> <<"1", "a">>, email |-> <<"c", "@", "b", ".", "c">>,
       first_name |-> <<"A">>, last_name |-> <<"l">>, reason |-> <<>>],
      [username |-> <<"c", "_">>, email |-> <<"c", "@", "b">>,
       first_name |-> <<"A">>, last_name |-> <<"l">>, reason |-> <<>>],
      [username |-> <<"c", "_">>, email |-> <<"c", "@", "b", ".", "c">>,
       first_name |-> <<" ">>, last_name |-> <<"l">>, reason |-> <<>>],
      [username |-> <<"c", "_">>, email |-> <<"c", "@", "b", ".", "c">>,
       first_name |-> <<"A">>, last_name |-> LongName, reason |-> <<>>] }

\* the administrator named by the Remote-User header of an approval
Approvers == {"admin1"}
\* the administrator and the reason of a rejection: posted with no
\* Remote-User header and no reason, the defaults are recorded
RejectInputs == {[by |-> UnknownUser, why |-> DefaultRejectReason]}
\* request ids an administrator may post
Ids == 1..MaxCalls
\* values of the generated password
Passwords == {"pw1"}

\* how a directory command ends: done, non-zero exit with the command refused
\* ("rc") or applied by the server all the same ("rc_done"), timed out before
\* or after the server applied it, or with an exception of subprocess.run,
\* raised before the command was run ("exc") or after the server applied it
\* ("exc_done": the output of the command cannot be decoded)
CmdOutcomes == {"ok", "rc", "rc_done", "timeout", "timeout_done", "exc", "exc_done"}
\* how create_lldap_user's first step ends: as ldapadd ends, or with the
\* exception get_lldap_admin_password raises before any command is run
AddOutcomes == CmdOutcomes \cup {"unread"}
\* how an ldapsearch ends: answered, non-zero exit, or timeout / exception
SearchOutcomes == {"ok", "rc", "fail"}
\* how check_ldap_user_exists gets to the end of its first search: as the
\* search ends, or with the exception open() raises on the secret file before
\* any search is run
UidSearchOutcomes == SearchOutcomes \cup {"unread"}
\* the write to the log file
IoOutcomes == {"ok", "fail"}
\* how a part of the SMTP session ends (the part up to server.send_message,
\* then server.quit): it is done, or an exception is raised
SmtpOutcomes == {"ok", "fail"}

(* ---- state ------------------------------------------------------------ *)
VARIABLES
    pending,      \* rows of registration_requests
    nextId,       \* next AUTOINCREMENT id of registration_requests
    audit,        \* rows of audit_log, in insertion order
    directory,    \* entries of the lldap directory under ou=people
    smtpSent,     \* messages handed to the SMTP server
    emailLog,     \* messages appended to EMAIL_LOG_FILE
    call,         \* the calls in flight, per connection
    last,         \* the call that returned last, with its result
    ncalls,       \* calls started so far
    smtpEnabled,  \* SMTP_ENABLED
    adminEmail,   \* ADMIN_EMAIL (<<>> when unset)
    deleteFailed, \* history: some ldapdelete did not remove its entry
    applied       \* a function applied on its own: its name, argument, result

vars == <<pending, nextId, audit, directory, smtpSent, emailLog, call, last, ncalls,
          smtpEnabled, adminEmail, deleteFailed, applied>>

NoRow == [id |-> 0, username |-> <<>>, email |-> <<>>, first_name |-> <<>>,
          last_name |-> <<>>, reason |-> <<>>]

\* a connection with no call.  op is the handler, pc its next statement, id
\* the request_id of the URL, row the form fields or the row loaded, by the
\* Remote-User, why the rejection reason, pw the generated password, dir the
\* directory commands issued so far, res the result
Idle == [op |-> "idle", pc |-> "idle", id |-> 0, row |-> NoRow, by |-> "", why |-> "",
         pw |-> "", dir |-> {}, res |-> ""]

\* no function is applied on its own
NotApplied == [fn |-> "", arg |-> <<>>, out |-> <<>>]

\* an empty database, an empty directory, no call
Fresh ==
    /\ pending = {}
    /\ nextId = 1
    /\ audit = <<>>
    /\ directory = {}
    /\ smtpSent = {}
    /\ emailLog = {}
    /\ call = [p \in Procs |-> Idle]
    /\ last = Idle
    /\ ncalls = 0
    /\ deleteFailed = FALSE

Init ==
    /\ Fresh
    /\ smtpEnabled \in BOOLEAN
    /\ adminEmail \in {<<>>, AdminAddress}
    /\ applied = NotApplied

\* a new call is taken by the first free connection
CanStart(p) ==
    /\ ncalls < MaxCalls
    /\ call[p] = Idle
    /\ \A q \in Procs : q < p => call[q] # Idle

\* the call of connection p goes on as c, or returns when c.pc is "done"
Becomes(p, c) ==
    IF c.pc = "done"
    THEN call' = [call EXCEPT ![p] = Idle] /\ last' = c
    ELSE call' = [call EXCEPT ![p] = c] /\ UNCHANGED last

(* ---- LDAP escaping ---------------------------------------------------- *)
Backslash == "\\"
\* str.replace(c, rep)
RECURSIVE Replace(_, _, _)
Replace(s, c, rep) == IF s = <<>> THEN <<>>
                      ELSE IF Head(s) = c THEN rep \o Replace(Tail(s), c, rep)
                      ELSE <<Head(s)>> \o Replace(Tail(s), c, rep)

\* the keys of the replacements dict, in insertion order
DnSpecials == <<",", "#", "+", "<", ">", ";", "\"", "=">>

RECURSIVE ReplaceAll(_, _)
ReplaceAll(s, cs) == IF cs = <<>> THEN s
                     ELSE ReplaceAll(Replace(s, Head(cs), <<Backslash, Head(cs)>>), Tail(cs))

escape_ldap_dn(value) ==
    LET v1 == Replace(value, Backslash, <<Backslash, Backslash>>)
        v2 == ReplaceAll(v1, DnSpecials)
        v3 == IF v2 # <<>> /\ Head(v2) = " " THEN <<Backslash>> \o v2 ELSE v2
        v4 == IF v3 # <<>> /\ v3[Len(v3)] = " "
              THEN SubSeq(v3, 1, Len(v3) - 1) \o <<Backslash, " ">> ELSE v3
    IN  v4

(* ---- directory lookups ------------------------------------------------ *)
\* ldapsearch (uid=username): an entry is printed
UidFound(username) == \E e \in directory : e.uid = escape_ldap_dn(username)
\* ldapsearch (mail=email): an entry is printed
MailFound(email) == \E e \in directory : e.mail = escape_ldap_dn(email)

\* mutant: a uid search that times out or raises blocks the registration
check_ldap_user_exists_uid_failsClosed(username, su) ==
    IF su \in {"fail", "unread"} THEN "UsernameTaken"
    ELSE IF su = "ok" /\ UidFound(username) THEN "UsernameTaken"
    ELSE "next"

\* check_ldap_user_exists up to the end of the uid search, which ends with
\* su.  A timeout or an exception ends the check with "does not exist"; a
\* non-zero exit or an empty answer goes on to the mail search ("next").
check_ldap_user_exists_uid(username, su) ==
    IF su \in {"fail", "unread"} THEN "absent"
    ELSE IF su = "ok" /\ UidFound(username) THEN "UsernameTaken"
    ELSE "next"

\* check_ldap_user_exists from the mail search, which ends with sm, to its
\* return
check_ldap_user_exists_mail(email, sm) ==
    IF sm = "ok" /\ MailFound(email) THEN "EmailRegistered" ELSE "absent"

(* ---- notifications ---------------------------------------------------- *)
Message(kind, to, username, text, req) ==
    [kind |-> kind, to |-> to, username |-> username, text |-> text, req |-> req]

\* server.send_message(msg) has handed the message to the SMTP server
HandedOver(smtp) == smtpEnabled /\ smtp = "ok"

\* send_email calls log_email_to_file without waiting for server.quit: SMTP
\* is disabled, or the try block raised before send_message was done
WritesLog(smtp) == ~smtpEnabled \/ smtp # "ok"

\* send_email up to the end of server.send_message: "quit" when the message
\* was handed over and server.quit is next, "logged" when the message was
\* written to the file, "raised" when that write fails and its exception
\* leaves send_email
send_email(smtp, log) ==
    IF ~WritesLog(smtp) THEN "quit"
    ELSE IF log = "ok" THEN "logged" ELSE "raised"

\* send_email from server.quit, which ends with quit, to its return
send_email_rest(quit, log) ==
    IF quit = "ok" THEN "sent"
    ELSE IF log = "ok" THEN "logged" ELSE "raised"

\* the effect of send_email(msg), up to the end of server.send_message, on the
\* transport and on the log file; the outcome of a part that is not run (the
\* SMTP session when SMTP is disabled, the log write when the message was
\* handed over) is "ok"
Deliver(msg, smtp, log) ==
    /\ ~smtpEnabled => smtp = "ok"
    /\ ~WritesLog(smtp) => log = "ok"
    /\ smtpSent' = IF HandedOver(smtp) THEN smtpSent \cup {msg} ELSE smtpSent
    /\ emailLog' = IF send_email(smtp, log) = "logged"
                   THEN emailLog \cup {msg} ELSE emailLog

\* the message notify_admin_new_request, notify_user_approved or
\* notify_user_rejected builds for call c
Notification(c) ==
    CASE c.op = "admit" ->
             Message("admin_new", adminEmail, c.row.username, "", c.row.id)
      [] c.op = "approve" ->
             Message("approved", c.row.email, c.row.username, c.pw, c.row.id)
      [] OTHER ->
             Message("rejected", c.row.email, c.row.username, c.why, c.row.id)

\* the result with which a handler returns after its notification
Success(op) ==
    CASE op = "admit" -> "Submitted"
      [] op = "approve" -> "Approved"
      [] OTHER -> "Rejected"

(* ---- POST / : register_submit ----------------------------------------- *)
\* the form fields after strip and lower
Normalize(c) ==
    [id |-> 0, username |-> Lower(Strip(c.username)), email |-> Lower(Strip(c.email)),
     first_name |-> Strip(c.first_name), last_name |-> Strip(c.last_name),
     reason |-> Strip(c.reason)]

\* the checks made before the directory and the store are read
FormError(r) ==
    IF r.username = <<>> \/ r.email = <<>> \/ r.first_name = <<>> \/ r.last_name = <<>>
    THEN "Required"
    ELSE IF ~validate_username_strict(r.username) THEN "BadUsername"
    ELSE IF ~validate_email_basic(r.email) THEN "BadEmail"
    ELSE IF Len(r.first_name) > MaxNameLen \/ Len(r.last_name) > MaxNameLen
    THEN "NameTooLong"
    ELSE "none"

\* SELECT ... FROM registration_requests WHERE username = ? OR email = ?
PendingMatches(username, email) ==
    {r \in pending : r.username = username \/ r.email = email}

\* the UNIQUE constraint of registration_requests refuses the row
UniqueViolation(row) == \E r \in pending : r.username = row.username

\* the ldapsearch commands check_ldap_user_exists has run, with the one that
\* ended with o: "search" for one that was answered, "search_failed" for one
\* that ended otherwise, nothing when no search was run
Searches(ran, o) ==
    IF o = "unread" THEN ran
    ELSE IF o = "ok" THEN ran \cup {"search"} ELSE ran \cup {"search_failed"}

\* the call starts: normalisation, validation, and the directory check up to
\* the end of its uid search
register_submit(p, cand, su) ==
    LET r == Normalize(cand)
        c == [Idle EXCEPT !.op = "admit", !.row = r]
        found == check_ldap_user_exists_uid(r.username, su)
        searched == [c EXCEPT !.dir = Searches({}, su)]
    IN  /\ CanStart(p)
        /\ ncalls' = ncalls + 1
        /\ IF FormError(r) # "none"
           THEN /\ su = "ok"    \* no search is run
                /\ Becomes(p, [c EXCEPT !.pc = "done", !.res = FormError(r)])
           ELSE IF found = "UsernameTaken"
           THEN Becomes(p, [searched EXCEPT !.pc = "done", !.res = found])
           ELSE IF found = "next"
           THEN Becomes(p, [searched EXCEPT !.pc = "mail"])
           ELSE Becomes(p, [searched EXCEPT !.pc = "select"])
        /\ UNCHANGED <<pending, nextId, audit, directory, smtpSent, emailLog,
                       smtpEnabled, adminEmail, deleteFailed, applied>>

\* the directory check goes on: the mail search, run as a second ldapsearch
\* process after the uid search has ended
register_mail_search(p, sm) ==
    /\ call[p].op = "admit" /\ call[p].pc = "mail"
    /\ LET found == check_ldap_user_exists_mail(call[p].row.email, sm)
           searched == [call[p] EXCEPT !.dir = Searches(@, sm)]
       IN  IF found = "EmailRegistered"
           THEN Becomes(p, [searched EXCEPT !.pc = "done", !.res = found])
           ELSE Becomes(p, [searched EXCEPT !.pc = "select"])
    /\ UNCHANGED <<pending, nextId, audit, directory, smtpSent, emailLog, ncalls,
                   smtpEnabled, adminEmail, deleteFailed, applied>>

\* the SELECT for a pending request with the username or the e-mail
register_select(p) ==
    /\ call[p].op = "admit" /\ call[p].pc = "select"
    /\ LET m == PendingMatches(call[p].row.username, call[p].row.email)
       IN  IF m # {}
           THEN \E existing \in m :
                    Becomes(p, [call[p] EXCEPT !.pc = "done",
                                   !.res = IF existing.username = call[p].row.username
                                           THEN "PendingUsername" ELSE "PendingEmail"])
           ELSE Becomes(p, [call[p] EXCEPT !.pc = "insert"])
    /\ UNCHANGED <<pending, nextId, audit, directory, smtpSent, emailLog, ncalls,
                   smtpEnabled, adminEmail, deleteFailed, applied>>

\* mutant: the id is one more than the largest id in the table
NewId_afterLargestRow ==
    IF pending = {} THEN 1
    ELSE 1 + CHOOSE m \in {r.id : r \in pending} : \A r \in pending : r.id <= m

\* the id an INSERT INTO registration_requests assigns (AUTOINCREMENT)
NewId == nextId

\* mutant: the admin is notified whether or not the INSERT went through
AfterInsert_notifiesAnyway(c, inserted) ==
    IF ~inserted THEN [c EXCEPT !.pc = "notify", !.res = "IntegrityError"]
    ELSE IF adminEmail # <<>>
    THEN [c EXCEPT !.pc = "notify", !.row.id = NewId]
    ELSE [c EXCEPT !.pc = "done", !.row.id = NewId, !.res = "Submitted"]

\* register_submit after the INSERT: the admin is notified inside the try
\* block, after the commit, when ADMIN_EMAIL is set; an IntegrityError skips it
AfterInsert(c, inserted) ==
    IF ~inserted THEN [c EXCEPT !.pc = "done", !.res = "IntegrityError"]
    ELSE IF adminEmail # <<>>
    THEN [c EXCEPT !.pc = "notify", !.row.id = NewId]
    ELSE [c EXCEPT !.pc = "done", !.row.id = NewId, !.res = "Submitted"]

\* the INSERT and its commit
register_insert(p) ==
    /\ call[p].op = "admit" /\ call[p].pc = "insert"
    /\ IF UniqueViolation(call[p].row)
       THEN UNCHANGED <<pending, nextId>>
       ELSE /\ pending' = pending \cup {[call[p].row EXCEPT !.id = NewId]}
            /\ nextId' = nextId + 1
    /\ Becomes(p, AfterInsert(call[p], ~UniqueViolation(call[p].row)))
    /\ UNCHANGED <<audit, directory, smtpSent, emailLog, ncalls,
                   smtpEnabled, adminEmail, deleteFailed, applied>>

\* the handler returns from its notification, send_email having ended with
\* sent: the exception of a failed log write leaves the handler
Returned(c, sent) ==
    [c EXCEPT !.pc = "done",
              !.res = IF sent = "raised" THEN "ServerError"
                      ELSE IF c.res # "" THEN c.res ELSE Success(c.op)]

\* a handler after the first part of its notification: waiting in
\* server.quit, or returned
Notified(c, smtp, log) ==
    IF send_email(smtp, log) = "quit" THEN [c EXCEPT !.pc = "quit"]
    ELSE Returned(c, send_email(smtp, log))

\* notify_admin_new_request
register_notify(p, smtp, log) ==
    /\ call[p].op = "admit" /\ call[p].pc = "notify"
    /\ Deliver(Notification(call[p]), smtp, log)
    /\ Becomes(p, Notified(call[p], smtp, log))
    /\ UNCHANGED <<pending, nextId, audit, directory, ncalls,
                   smtpEnabled, adminEmail, deleteFailed, applied>>

(* ---- create_lldap_user ------------------------------------------------ *)
\* the re-validation at the head of create_lldap_user
InputError(r) ==
    IF ~validate_username_strict(r.username) THEN "Invalid username format"
    ELSE IF ~validate_email_basic(r.email) THEN "Invalid email format"
    ELSE IF ~NamesOk(r.first_name, r.last_name) THEN "Invalid name fields"
    ELSE "none"

\* the entry ldapadd creates from the LDIF; req names the request whose
\* approval created it (history, not an attribute)
Entry(r) == [uid |-> escape_ldap_dn(r.username), mail |-> escape_ldap_dn(r.email),
             pw |-> "", req |-> r.id]

\* str(e) of the exception get_lldap_admin_password raises when the secret
\* file is there and cannot be read or decoded
SecretError == "codec can't decode"

\* the error create_lldap_user returns when ldapadd ends with o
AddError(o) ==
    CASE o \in {"rc", "rc_done"} -> "Failed to create user"
      [] o \in {"timeout", "timeout_done"} -> "LDAP operation timed out"
      [] o \in {"exc", "exc_done"} -> "Failed to create user"
      [] OTHER -> ""

\* the error create_lldap_user returns when ldappasswd ends with o
PasswdError(o) ==
    CASE o \in {"rc", "rc_done"} -> "Failed to set password"
      [] o \in {"timeout", "timeout_done"} -> "LDAP operation timed out"
      [] o \in {"exc", "exc_done"} -> "Failed to set password"
      [] OTHER -> ""

\* ldappasswd ended with o: the entry is deleted before the error is returned
CleansUp(o) == o \in {"rc", "rc_done"}

\* the server applied the command
Applied(o) == o \in {"ok", "rc_done", "timeout_done", "exc_done"}

\* mutant: the request is moved to the audit log whatever create_lldap_user
\* returned
AfterProvision_resolvesAnyway(c, success, error) ==
    [c EXCEPT !.pc = "resolve", !.res = error]

\* approve_request after create_lldap_user returned (success, error)
AfterProvision(c, success, error) ==
    [c EXCEPT !.pc = IF success THEN "resolve" ELSE "done", !.res = error]

(* ---- POST /admin/approve/{request_id} : approve_request ---------------- *)
AuditRow(r, action, by, why) ==
    [username |-> r.username, email |-> r.email, first_name |-> r.first_name,
     last_name |-> r.last_name, reason |-> r.reason, action |-> action,
     performed_by |-> by, rejection_reason |-> why, req |-> r.id]

\* mutant: the SELECT has no WHERE clause
Load_ignoresId(id) == pending

\* SELECT * FROM registration_requests WHERE id = ?
Load(id) == {r \in pending : r.id = id}

\* the call starts: SELECT the row, 404 when there is none
approve_request(p, id, by) ==
    LET c == [Idle EXCEPT !.op = "approve", !.id = id, !.by = by]
    IN  /\ CanStart(p)
        /\ ncalls' = ncalls + 1
        /\ IF Load(id) # {}
           THEN \E req \in Load(id) : Becomes(p, [c EXCEPT !.pc = "add", !.row = req])
           ELSE Becomes(p, [c EXCEPT !.pc = "done", !.res = "NotFound"])
        /\ UNCHANGED <<pending, nextId, audit, directory, smtpSent, emailLog,
                       smtpEnabled, adminEmail, deleteFailed, applied>>

\* mutant: a refused ldapadd is followed by ldappasswd all the same
AfterAdd_setsPasswordAnyway(c, o, password) ==
    IF o \in {"ok", "rc"} THEN [c EXCEPT !.pc = "passwd", !.pw = password]
    ELSE AfterProvision(c, FALSE, AddError(o))

\* create_lldap_user after ldapadd ended with o: on to ldappasswd, or the
\* error returned
AfterAdd(c, o, password) ==
    IF o = "ok" THEN [c EXCEPT !.pc = "passwd", !.pw = password]
    ELSE AfterProvision(c, FALSE, AddError(o))

\* create_lldap_user up to the end of step 1: validation, password, admin
\* password, ldapadd
create_lldap_user_add(p, o, password) ==
    /\ call[p].op = "approve" /\ call[p].pc = "add"
    /\ IF InputError(call[p].row) # "none"
       THEN /\ o = "ok"    \* no command is run
            /\ Becomes(p, AfterProvision(call[p], FALSE, InputError(call[p].row)))
            /\ UNCHANGED directory
       ELSE IF o = "unread"
       THEN /\ Becomes(p, AfterProvision(call[p], FALSE, SecretError))
            /\ UNCHANGED directory
       ELSE /\ Applied(o) => ~UidFound(call[p].row.username)
            /\ directory' = IF Applied(o)
                            THEN directory \cup {Entry(call[p].row)} ELSE directory
            /\ Becomes(p, AfterAdd([call[p] EXCEPT !.dir = {"add"}], o, password))
    /\ UNCHANGED <<pending, nextId, audit, smtpSent, emailLog, ncalls,
                   smtpEnabled, adminEmail, deleteFailed, applied>>

\* create_lldap_user step 2: ldappasswd
create_lldap_user_passwd(p, o) ==
    /\ call[p].op = "approve" /\ call[p].pc = "passwd"
    /\ Applied(o) => UidFound(call[p].row.username)
    /\ directory' = IF Applied(o)
                    THEN {IF e.uid = escape_ldap_dn(call[p].row.username)
                          THEN [e EXCEPT !.pw = call[p].pw] ELSE e : e \in directory}
                    ELSE directory
    /\ LET c == [call[p] EXCEPT !.dir = @ \cup {"passwd"}]
       IN  IF o = "ok" THEN Becomes(p, AfterProvision(c, TRUE, ""))
           ELSE IF CleansUp(o)
           THEN Becomes(p, [c EXCEPT !.pc = "delete", !.res = PasswdError(o)])
           ELSE Becomes(p, AfterProvision(c, FALSE, PasswdError(o)))
    /\ UNCHANGED <<pending, nextId, audit, smtpSent, emailLog, ncalls,
                   smtpEnabled, adminEmail, deleteFailed, applied>>

\* create_lldap_user cleanup: ldapdelete, its result is not read
create_lldap_user_delete(p, o) ==
    /\ call[p].op = "approve" /\ call[p].pc = "delete"
    /\ Applied(o) => UidFound(call[p].row.username)
    /\ directory' = IF Applied(o)
                    THEN {e \in directory : e.uid # escape_ldap_dn(call[p].row.username)}
                    ELSE directory
    /\ deleteFailed' = (deleteFailed \/ ~Applied(o))
    /\ Becomes(p, AfterProvision([call[p] EXCEPT !.dir = @ \cup {"delete"}], FALSE,
                      IF o \in {"timeout", "timeout_done"}
                      THEN "LDAP operation timed out" ELSE call[p].res))
    /\ UNCHANGED <<pending, nextId, audit, smtpSent, emailLog, ncalls,
                   smtpEnabled, adminEmail, applied>>

\* mutant: the user is notified before the audit entry is committed
approve_resolve_notifiesFirst(p) ==
    /\ call[p].op = "approve" /\ call[p].pc = "resolve"
    /\ smtpSent' = smtpSent \cup {Message("approved", call[p].row.email,
                                          call[p].row.username, call[p].pw,
                                          call[p].row.id)}
    /\ Becomes(p, [call[p] EXCEPT !.pc = "notify"])
    /\ UNCHANGED <<pending, nextId, audit, directory, emailLog, ncalls,
                   smtpEnabled, adminEmail, deleteFailed, applied>>

\* the INSERT INTO audit_log, the DELETE and their commit
approve_resolve(p) ==
    /\ call[p].op = "approve" /\ call[p].pc = "resolve"
    /\ audit' = Append(audit, AuditRow(call[p].row, "APPROVED", call[p].by, Null))
    /\ pending' = {r \in pending : r.id # call[p].id}
    /\ Becomes(p, [call[p] EXCEPT !.pc = "notify"])
    /\ UNCHANGED <<nextId, directory, smtpSent, emailLog, ncalls,
                   smtpEnabled, adminEmail, deleteFailed, applied>>

\* notify_user_approved
approve_notify(p, smtp, log) ==
    /\ call[p].op = "approve" /\ call[p].pc = "notify"
    /\ Deliver(Notification(call[p]), smtp, log)
    /\ Becomes(p, Notified(call[p], smtp, log))
    /\ UNCHANGED <<pending, nextId, audit, directory, ncalls,
                   smtpEnabled, adminEmail, deleteFailed, applied>>

(* ---- POST /admin/reject/{request_id} : reject_request ------------------ *)
\* the call starts: SELECT the row, 404 when there is none
reject_request(p, id, by, why) ==
    LET c == [Idle EXCEPT !.op = "reject", !.id = id, !.by = by, !.why = why]
    IN  /\ CanStart(p)
        /\ ncalls' = ncalls + 1
        /\ IF Load(id) # {}
           THEN \E req \in Load(id) : Becomes(p, [c EXCEPT !.pc = "resolve", !.row = req])
           ELSE Becomes(p, [c EXCEPT !.pc = "done", !.res = "NotFound"])
        /\ UNCHANGED <<pending, nextId, audit, directory, smtpSent, emailLog,
                       smtpEnabled, adminEmail, deleteFailed, applied>>

\* the INSERT INTO audit_log, the DELETE and their commit
reject_resolve(p) ==
    /\ call[p].op = "reject" /\ call[p].pc = "resolve"
    /\ audit' = Append(audit, AuditRow(call[p].row, "REJECTED", call[p].by, call[p].why))
    /\ pending' = {r \in pending : r.id # call[p].id}
    /\ Becomes(p, [call[p] EXCEPT !.pc = "notify"])
    /\ UNCHANGED <<nextId, directory, smtpSent, emailLog, ncalls,
                   smtpEnabled, adminEmail, deleteFailed, applied>>

\* notify_user_rejected
reject_notify(p, smtp, log) ==
    /\ call[p].op = "reject" /\ call[p].pc = "notify"
    /\ Deliver(Notification(call[p]), smtp, log)
    /\ Becomes(p, Notified(call[p], smtp, log))
    /\ UNCHANGED <<pending, nextId, audit, directory, ncalls,
                   smtpEnabled, adminEmail, deleteFailed, applied>>

(* ---- send_email, after the message was handed over --------------------- *)
\* server.quit of the notification of any of the three handlers, and on its
\* exception the write of the message to the log file
send_email_quit(p, quit, log) ==
    /\ call[p].pc = "quit"
    /\ quit = "ok" => log = "ok"    \* no log write
    /\ emailLog' = IF send_email_rest(quit, log) = "logged"
                   THEN emailLog \cup {Notification(call[p])} ELSE emailLog
    /\ Becomes(p, Returned(call[p], send_email_rest(quit, log)))
    /\ UNCHANGED <<pending, nextId, audit, directory, smtpSent, ncalls,
                   smtpEnabled, adminEmail, deleteFailed, applied>>

(* ---- the service ------------------------------------------------------ *)
Next ==
    \/ \E p \in Procs, cand \in Candidates, su \in UidSearchOutcomes :
           register_submit(p, cand, su)
    \/ \E p \in Procs, sm \in SearchOutcomes : register_mail_search(p, sm)
    \/ \E p \in Procs : register_select(p)
    \/ \E p \in Procs : register_insert(p)
    \/ \E p \in Procs, smtp \in SmtpOutcomes, log \in IoOutcomes : register_notify(p, smtp, log)
    \/ \E p \in Procs, id \in Ids, by \in Approvers : approve_request(p, id, by)
    \/ \E p \in Procs, o \in AddOutcomes, password \in Passwords :
           create_lldap_user_add(p, o, password)
    \/ \E p \in Procs, o \in CmdOutcomes : create_lldap_user_passwd(p, o)
    \/ \E p \in Procs, o \in CmdOutcomes : create_lldap_user_delete(p, o)
    \/ \E p \in Procs : approve_resolve(p)
    \/ \E p \in Procs, smtp \in SmtpOutcomes, log \in IoOutcomes : approve_notify(p, smtp, log)
    \/ \E p \in Procs, id \in Ids, in \in RejectInputs :
           reject_request(p, id, in.by, in.why)
    \/ \E p \in Procs : reject_resolve(p)
    \/ \E p \in Procs, smtp \in SmtpOutcomes, log \in IoOutcomes : reject_notify(p, smtp, log)
    \/ \E p \in Procs, quit \in SmtpOutcomes, log \in IoOutcomes : send_email_quit(p, quit, log)

Spec == Init /\ [][Next]_vars

(* ---- approvals of a stored request ------------------------------------ *)
\* a submission with a letter outside ASCII in its username
NonAsciiCandidate ==
    [username |-> <<"a", "é">>, email |-> <<"c", "@", "b", ".", "c">>,
     first_name |-> <<"A">>, last_name |-> <<"l">>, reason |-> <<>>]

\* the rows register_submit inserts, as the first row of the table
StoredRows ==
    {[Normalize(c) EXCEPT !.id = 1] :
        c \in {x \in Candidates \cup {NonAsciiCandidate} : FormError(Normalize(x)) = "none"}}

\* an identity the directory holds under the username of r, not created by
\* this service (r was admitted while the lookup was not answered)
Existing(r) == [uid |-> escape_ldap_dn(r.username), mail |-> escape_ldap_dn(AdminAddress),
                pw |-> "pw0", req |-> 0]

\* the database holds one pending request; the directory is empty or holds
\* an identity with its username
InitStored ==
    /\ \E r \in StoredRows :
           /\ pending = {r}
           /\ directory \in {{}, {Existing(r)}}
    /\ nextId = 2
    /\ audit = <<>>
    /\ smtpSent = {}
    /\ emailLog = {}
    /\ call = [p \in Procs |-> Idle]
    /\ last = Idle
    /\ ncalls = 0
    /\ deleteFailed = FALSE
    /\ smtpEnabled \in BOOLEAN
    /\ adminEmail = <<>>
    /\ applied = NotApplied

NextStored ==
    \/ \E p \in Procs, id \in Ids, by \in Approvers : approve_request(p, id, by)
    \/ \E p \in Procs, o \in AddOutcomes, password \in Passwords :
           create_lldap_user_add(p, o, password)
    \/ \E p \in Procs, o \in CmdOutcomes : create_lldap_user_passwd(p, o)
    \/ \E p \in Procs, o \in CmdOutcomes : create_lldap_user_delete(p, o)
    \/ \E p \in Procs : approve_resolve(p)
    \/ \E p \in Procs, smtp \in SmtpOutcomes, log \in IoOutcomes : approve_notify(p, smtp, log)
    \/ \E p \in Procs, quit \in SmtpOutcomes, log \in IoOutcomes : send_email_quit(p, quit, log)

SpecStored == InitStored /\ [][NextStored]_vars

(* ---- the pure functions, applied on their own ------------------------- *)
\* longest argument drawn
MaxValueLen == 3

\* the strings over alphabet of up to n characters
Strings(alphabet, n) == UNION {[1..k -> alphabet] : k \in 0..n}

\* the environment of a function applied on its own
Configured == smtpEnabled = FALSE /\ adminEmail = <<>>
Unapplied(args) == applied \in {[NotApplied EXCEPT !.arg = a] : a \in args}
Apply(fn, out) ==
    /\ applied.fn = ""
    /\ applied' = [applied EXCEPT !.fn = fn, !.out = out]
    /\ UNCHANGED <<pending, nextId, audit, directory, smtpSent, emailLog, call, last,
                   ncalls, smtpEnabled, adminEmail, deleteFailed>>

\* escape_ldap_dn(value): an ordinary character, the space and the specials
DnAlphabet == {"a", " ", ",", "#", "+", "<", ">", ";", "\"", "=", Backslash}
DnValues == Strings(DnAlphabet, MaxValueLen)

InitEscape == Fresh /\ Configured /\ Unapplied(DnValues)
apply_escape_ldap_dn == Apply("escape_ldap_dn", escape_ldap_dn(applied.arg))
NextEscape == apply_escape_ldap_dn
SpecEscape == InitEscape /\ [][NextEscape]_vars

\* validate_username_strict(username): letters of both cases, a digit, the
\* underscore, a letter and a digit outside ASCII, a hyphen; and the lengths
\* at the upper limit
UsernameAlphabet == {"a", "A", "1", "_", "é", "²", "-"}
Usernames ==
    Strings(UsernameAlphabet, MaxValueLen)
        \cup {[i \in 1..n |-> "a"] : n \in {MaxUsernameLen, MaxUsernameLen + 1}}

InitUsername == Fresh /\ Configured /\ Unapplied(Usernames)
apply_validate_username_strict ==
    Apply("validate_username_strict", validate_username_strict(applied.arg))
NextUsername == apply_validate_username_strict
SpecUsername == InitUsername /\ [][NextUsername]_vars

(* ---- responses -------------------------------------------------------- *)
\* the errors create_lldap_user returns
ProvisionErrors ==
    {"Invalid username format", "Invalid email format", "Invalid name fields",
     "Failed to create user", "LDAP operation timed out", "Failed to set password",
     SecretError}
\* the results with which register_submit renders the form with an error
FormErrors == {"Required", "BadUsername", "BadEmail", "NameTooLong"}
DirectoryCollisions == {"UsernameTaken", "EmailRegistered"}
DuplicatePending == {"PendingUsername", "PendingEmail", "IntegrityError"}
Rejections == FormErrors \cup DirectoryCollisions \cup DuplicatePending

\* the HTTP status of the response of a finished call
StatusCode(c) ==
    CASE c.res = "NotFound" -> 404
      [] c.res = "ServerError" -> 500
      [] c.op = "admit" /\ c.res \in Rejections -> 200
      [] OTHER -> 303

\* what the client receives: the status and the redirect target or the body
Response(c) ==
    CASE c.res = "NotFound" -> [status |-> 404, to |-> "Request not found"]
      [] c.res = "ServerError" -> [status |-> 500, to |-> "Internal Server Error"]
      [] c.op = "admit" /\ c.res \in Rejections -> [status |-> 200, to |-> c.res]
      [] c.op = "admit" -> [status |-> 303, to |-> "/?success"]
      [] OTHER -> [status |-> 303, to |-> "/admin"]

\* the notification each handler sends on success
KindOf(op) ==
    CASE op = "admit" -> "admin_new"
      [] op = "approve" -> "approved"
      [] OTHER -> "rejected"

(* ---- vocabulary of the claims ----------------------------------------- *)
\* the audit entries derived from request id
AuditOf(id) == {i \in DOMAIN audit : audit[i].req = id}
IsPending(id) == \E r \in pending : r.id = id
\* this step starts a call on connection p
Starts(p) == CanStart(p) /\ ncalls' = ncalls + 1
\* the call of connection p takes this step
Steps(p) == IF call[p] = Idle THEN Starts(p) ELSE call'[p] # call[p]
\* the call of connection p after its step
Result(p) == IF call'[p] = Idle THEN last' ELSE call'[p]
\* the calls in flight and the one that returned last
Calls == {call[p] : p \in Procs} \cup {last}
\* no approve_request is between its first and its last statement
Quiescent == \A p \in Procs : call[p].op # "approve"

\* validity as section 4.1 of the specification words it
AsciiWordChars == {"a", "b", "c", "l", "o", "x", "1", "_"}
AsciiLetters == {"a", "b", "c", "l", "o", "x", "A", "B"}
WellFormedUsername(u) ==
    /\ Len(u) >= 2 /\ Len(u) <= 64
    /\ u[1] \in AsciiLetters
    /\ \A i \in 1..Len(u) : u[i] \in AsciiWordChars
WellFormedEmail(e) ==
    /\ Count(e, "@") = 1
    /\ \E i \in 2..(Len(e) - 1) :
           /\ e[i] = "@"
           /\ \E j \in (i + 1)..Len(e) : e[j] = "."
    /\ Len(e) <= 255
WellFormedName(n) == n # <<>> /\ Len(n) <= 100
WellFormed(r) ==
    /\ WellFormedUsername(r.username) /\ WellFormedEmail(r.email)
    /\ WellFormedName(r.first_name) /\ WellFormedName(r.last_name)

(* ======================================================================= *)
(* Claims                                                                  *)
(* ======================================================================= *)

\* C1: in every reachable state no two pending rows share a username and no
\* two pending rows share an e-mail, whatever the interleaving of the
\* register_submit calls.
C1_UniquePending ==
    \A r1 \in pending, r2 \in pending :
        r1 # r2 => r1.username # r2.username /\ r1.email # r2.email

\* C2: every step of an approve_request whose provisioning has failed (at the
\* re-validation, at ldapadd, at ldappasswd, by a timeout) leaves the store as
\* it was: the pending rows keep their fields and no audit entry is appended.
C2_FailedApproveKeepsStore ==
    [][\A p \in Procs :
          (Steps(p) /\ Result(p).op = "approve" /\ Result(p).res \in ProvisionErrors)
          => (pending' = pending /\ audit' = audit /\ nextId' = nextId)]_vars

\* C2 witness: an approve_request ended by a failed ldappasswd, its row still
\* pending and no audit entry for it.
C2_Witness ==
    /\ last.op = "approve"
    /\ last.res = "Failed to set password"
    /\ last.row \in pending
    /\ AuditOf(last.id) = {}

\* C3: whenever ldapadd has succeeded and ldappasswd then fails in any way
\* (non-zero exit, timeout, exception), create_lldap_user attempts the
\* ldapdelete of the entry before it returns the failure.
C3_CleanupAttempted ==
    (/\ last.op = "approve"
     /\ "passwd" \in last.dir
     /\ last.res \in ProvisionErrors)
    => "delete" \in last.dir

\* C4: in every quiescent state, as long as every ldapdelete has removed its
\* entry, each directory entry created by the service has its password set
\* and belongs to a request with an APPROVED audit entry and no pending row.
C4_NoPartialIdentity ==
    (Quiescent /\ ~deleteFailed)
    => \A e \in directory :
           /\ e.pw # ""
           /\ \E i \in AuditOf(e.req) : audit[i].action = "APPROVED"
           /\ ~IsPending(e.req)

\* C5: once reject_request has committed for a pending id there is exactly one
\* audit entry derived from that row, REJECTED, with the approver and the
\* reason, and no pending row with the id; once approve_request has committed
\* there is exactly one, APPROVED, with the approver, and no pending row with
\* the id; and every admitted request is either pending or audited, never both
\* and never neither.
C5_ExactlyOneAuditEntry ==
    /\ \A c \in Calls :
           (c.op \in {"approve", "reject"}
            /\ (c.pc \in {"notify", "quit"} \/ c.res \in {"Approved", "Rejected", "ServerError"}))
           => /\ Cardinality(AuditOf(c.id)) = 1
              /\ \A i \in AuditOf(c.id) :
                     audit[i] = AuditRow(c.row,
                                    IF c.op = "approve" THEN "APPROVED" ELSE "REJECTED",
                                    c.by,
                                    IF c.op = "approve" THEN Null ELSE c.why)
              /\ ~IsPending(c.id)
    /\ \A id \in 1..(nextId - 1) : IsPending(id) # (AuditOf(id) # {})

\* C6: of two concurrent approve_request calls on the same id at most one
\* appends an audit entry, and the call that ends after the other has resolved
\* the request ends with NotFound.
C6_LoserSeesNotFound ==
    [][/\ \A id \in Ids :
              Cardinality({i \in DOMAIN audit' : audit'[i].req = id
                                       /\ audit'[i].action = "APPROVED"}) <= 1
       /\ \A q \in Procs :
              (/\ call[q].op = "approve" /\ call[q].pc \in {"add", "passwd", "delete"}
               /\ call'[q] = Idle
               /\ \E i \in AuditOf(call[q].id) : audit[i].action = "APPROVED")
              => last'.res = "NotFound"]_vars

\* C7: the audit log never holds more than one entry for a request, so never
\* an APPROVED and a REJECTED one, and a request recorded as REJECTED has no
\* directory entry provisioned for it.
C7_OneTerminalOutcome ==
    /\ \A id \in 1..(nextId - 1) : Cardinality(AuditOf(id)) <= 1
    /\ \A i \in DOMAIN audit :
           audit[i].action = "REJECTED" => ~\E e \in directory : e.req = audit[i].req

\* C8: approve_request for an id with no pending row answers 404 NotFound in
\* the step that looks the row up, and that step changes neither the pending
\* table, nor the audit log, nor the directory, issues no directory command
\* and sends no notification.
C8_ApproveMissingChangesNothing ==
    [][\A p \in Procs :
          (Starts(p) /\ Result(p).op = "approve" /\ ~IsPending(Result(p).id))
          => /\ Result(p).pc = "done" /\ Result(p).res = "NotFound"
             /\ StatusCode(Result(p)) = 404
             /\ Result(p).dir = {}
             /\ UNCHANGED <<pending, nextId, audit, directory, smtpSent, emailLog>>]_vars

\* C8 witness: an approve_request answered NotFound while another request is
\* pending.
C8_Witness ==
    /\ last.op = "approve" /\ last.res = "NotFound"
    /\ pending # {} /\ ~IsPending(last.id)

\* C9: a register_submit with a well-formed candidate passes the uid search
\* when the directory does not hold its username and the mail search when the
\* directory does not hold its e-mail; at the store check, with no pending row
\* of its username or e-mail it goes on to the INSERT, which adds exactly one
\* pending row (the candidate's fields under a fresh id); a call that has
\* inserted its row ends with the success redirect; and a register_submit
\* with valid fields that ends while another request with its username is
\* pending ends rejected as a duplicate pending request and inserts no row,
\* so the pending rows never share a username.
C9_AdmitOnceThenDuplicate ==
    [][\A p \in Procs :
          LET r == call[p].row
              taken == \E x \in pending : x.username = r.username
              mailTaken == \E x \in pending : x.email = r.email
          IN
          /\ (/\ Starts(p) /\ Result(p).op = "admit"
              /\ WellFormed(Result(p).row)
              /\ ~UidFound(Result(p).row.username))
             => Result(p).pc \in {"mail", "select"}
          /\ (/\ Steps(p) /\ call[p].op = "admit" /\ call[p].pc = "mail"
              /\ ~MailFound(r.email))
             => Result(p).pc = "select"
          /\ (/\ Steps(p) /\ call[p].op = "admit" /\ call[p].pc = "select"
              /\ ~taken /\ ~mailTaken)
             => Result(p).pc = "insert"
          /\ (/\ Steps(p) /\ call[p].op = "admit" /\ call[p].pc = "insert"
              /\ ~taken /\ ~mailTaken)
             =>    /\ pending' = pending \cup {[r EXCEPT !.id = nextId]}
                      /\ Cardinality(pending') = Cardinality(pending) + 1
          /\ (/\ Steps(p) /\ Result(p).op = "admit" /\ Result(p).pc = "done"
              /\ Result(p).row.id # 0)
             => Result(p).res = "Submitted"
          /\ (/\ Steps(p) /\ Result(p).op = "admit" /\ Result(p).pc = "done"
              /\ FormError(Result(p).row) = "none"
              /\ Result(p).row.id = 0
              /\ \E x \in pending : x.username = Result(p).row.username)
             => /\ Result(p).res \in DuplicatePending
                /\ pending' = pending
          /\ \A x \in pending', y \in pending' : x # y => x.username # y.username
      ]_vars

\* C10: a register_submit that rejects its candidate (a field fails validation,
\* the directory holds the username or the e-mail, a pending row has the
\* username or the e-mail) has inserted no row, and none of its steps changes
\* the pending table or the audit log or sends or logs a notification.
C10_RejectedAdmitChangesNothing ==
    [][\A p \in Procs :
          (Steps(p) /\ Result(p).op = "admit" /\ Result(p).res \in Rejections)
          => /\ UNCHANGED <<pending, nextId, audit, smtpSent, emailLog>>
             /\ Result(p).row.id = 0]_vars

\* C10 witness: with ADMIN_EMAIL set, a register_submit rejected because its
\* e-mail is pending, the one notification being that of the pending request.
C10_Witness ==
    /\ adminEmail # <<>>
    /\ last.op = "admit" /\ last.res = "PendingEmail"
    /\ \E x \in pending : x.email = last.row.email
    /\ Cardinality(smtpSent \cup emailLog) = 1
    /\ \A m \in smtpSent \cup emailLog : m.username # last.row.username

\* the step of call p is a mail search that was not answered: it adds
\* "search_failed", and no "search", to the searches the call has run
MailSearchUnanswered(p) ==
    IF "search" \in call[p].dir THEN "search_failed" \in Result(p).dir
    ELSE "search" \notin Result(p).dir

\* C11: the directory check fails open.  A check none of whose searches was
\* answered (timeout, exception, non-zero exit) reports "does not exist", and
\* a check reports a collision only for a search that was answered with an
\* entry; a register_submit with valid fields whose check was not answered
\* goes on to the store check, and its INSERT, when no pending row has its
\* username or e-mail, adds its row even if the directory holds the username.
C11_LookupFailsOpen ==
    [][\A p \in Procs :
          /\ (/\ Starts(p) /\ Result(p).op = "admit"
              /\ FormError(Result(p).row) = "none")
             => /\ "search" \notin Result(p).dir => Result(p).pc \in {"mail", "select"}
                /\ Result(p).pc = "done"
                   => /\ Result(p).res = "UsernameTaken"
                      /\ "search" \in Result(p).dir
                      /\ UidFound(Result(p).row.username)
          /\ (Steps(p) /\ call[p].op = "admit" /\ call[p].pc = "mail")
             => /\ MailSearchUnanswered(p) => Result(p).pc = "select"
                /\ Result(p).pc = "done"
                   => /\ Result(p).res = "EmailRegistered"
                      /\ "search" \in Result(p).dir
                      /\ MailFound(call[p].row.email)
          /\ (/\ Steps(p) /\ call[p].op = "admit" /\ call[p].pc = "insert"
              /\ "search" \notin call[p].dir
              /\ PendingMatches(call[p].row.username, call[p].row.email) = {})
             => /\ pending' = pending \cup {[call[p].row EXCEPT !.id = nextId]}
                /\ Result(p).res \notin Rejections
      ]_vars

\* C11 witness: a register_submit none of whose searches was answered has
\* inserted its row although the directory holds its username, provisioned
\* for an earlier request.
C11_Witness ==
    /\ last.op = "admit" /\ last.res = "Submitted"
    /\ last.dir = {"search_failed"}
    /\ last.row \in pending
    /\ \E e \in directory :
           /\ e.uid = escape_ldap_dn(last.row.username)
           /\ e.req # last.row.id /\ e.pw # ""

\* C12: a call that has committed its store change (the row inserted, the
\* request resolved) returns its normal success outcome, a 303 redirect, even
\* when the mail transport and the write to the log file fail.
C12_NotificationNeverFails ==
    (last.op \in {"admit", "approve", "reject"} /\ last.row.id # 0
     /\ last.res \notin ProvisionErrors \cup Rejections \cup {"NotFound"})
    => /\ last.res \in {"Submitted", "Approved", "Rejected"}
       /\ StatusCode(last) = 303

\* C13: the generated password is in no persistent state: no message written
\* to the e-mail log file carries it (the pending and audit rows have no
\* field for it).
C13_CredentialNotPersisted ==
    \A m \in emailLog : ~(m.kind = "approved" /\ m.text \in Passwords)

\* C14: the response of an approve_request whose provisioning failed differs
\* from the response the same call would have returned on success.
C14_FailureSurfaced ==
    (last.op = "approve" /\ last.res \in ProvisionErrors)
    => Response(last) # Response([last EXCEPT !.res = "Approved"])

\* C15: after an approve_request has failed at a provisioning step and no
\* approve_request is in flight, a new approve_request of the still pending
\* request can succeed against a working directory: its ldapadd is accepted,
\* that is, the failed call has left no entry for the request.
C15_ApproveRetriable ==
    (/\ last.op = "approve" /\ last.res \in ProvisionErrors
     /\ last.row \in pending /\ Quiescent)
    => ~\E e \in directory : e.req = last.id /\ e.uid = escape_ldap_dn(last.row.username)

\* the DN grammar read back: a backslash and the character after it give that
\* character, spaces at either end that are not escaped are dropped
RECURSIVE DnTokens(_)
DnTokens(s) ==
    IF s = <<>> THEN <<>>
    ELSE IF Head(s) = Backslash /\ Len(s) >= 2
    THEN <<[ch |-> s[2], esc |-> TRUE]>> \o DnTokens(SubSeq(s, 3, Len(s)))
    ELSE <<[ch |-> Head(s), esc |-> FALSE]>> \o DnTokens(Tail(s))
BareSpace(t) == t.ch = " " /\ ~t.esc
RECURSIVE DnLStrip(_)
DnLStrip(ts) == IF ts # <<>> /\ BareSpace(Head(ts)) THEN DnLStrip(Tail(ts)) ELSE ts
RECURSIVE DnRStrip(_)
DnRStrip(ts) == IF ts # <<>> /\ BareSpace(ts[Len(ts)])
                THEN DnRStrip(SubSeq(ts, 1, Len(ts) - 1)) ELSE ts
DnUnescape(s) ==
    LET ts == DnRStrip(DnLStrip(DnTokens(s)))
    IN  [i \in 1..Len(ts) |-> ts[i].ch]

\* C16: escape_ldap_dn round-trips: for every string over the ordinary
\* characters, the space and the DN specials, the single space included,
\* reading the escaped form back by the DN grammar gives the string.
C16_EscapeRoundTrips ==
    applied.fn = "escape_ldap_dn" => DnUnescape(applied.out) = applied.arg

\* C17: validate_username_strict accepts a string exactly when its length is
\* from 2 to 64, its first character is a letter and every character is a
\* lowercase ASCII letter, an ASCII digit or the underscore.
C17_UsernameValidIffWellFormed ==
    applied.fn = "validate_username_strict"
    => (applied.out <=> WellFormedUsername(applied.arg))

\* C18: no notification is dropped: when a register_submit has inserted its
\* row, an approve_request has approved or a reject_request has rejected, the
\* notification of that outcome has been handed to the SMTP server or appended
\* to the e-mail log, and appended to the log when SMTP is not enabled.
C18_NoNotificationDropped ==
    (last.res \in {"Submitted", "Approved", "Rejected"})
    => \E m \in smtpSent \cup emailLog :
           /\ m.kind = KindOf(last.op) /\ m.req = last.row.id
           /\ ~smtpEnabled => m \in emailLog

\* C19: create_lldap_user re-validates its arguments and issues no directory
\* command when a check fails, so that no approve_request issues a directory
\* command for a row that is not valid (username, e-mail and names as section
\* 4.1 of the specification defines them).
C19_NoInvalidRowProvisioned ==
    \A c \in Calls :
        (c.op = "approve" /\ c.row # NoRow)
        => /\ InputError(c.row) # "none" => (c.dir = {} /\ c.res \in {"", InputError(c.row)})
           /\ c.dir # {} => WellFormed(c.row)

\* C20: an ldapadd that is not accepted ends create_lldap_user with a
\* provisioning error, with no ldappasswd and no ldapdelete issued and no
\* entry of the directory changed or removed; in particular when the directory
\* already holds the username the approve_request ends that way.  No step
\* changes or removes an identity the service did not create, and no two
\* entries have one username.
C20_RefusedAddTouchesNothing ==
    [][/\ \A p \in Procs :
              (Steps(p) /\ call[p].op = "approve" /\ call[p].pc = "add")
              => /\ UidFound(call[p].row.username)
                    => (Result(p).pc = "done" /\ directory' = directory)
                 /\ Result(p).pc = "done"
                    => /\ Result(p).res \in ProvisionErrors
                       /\ Result(p).dir \subseteq {"add"}
                       /\ directory \subseteq directory'
       /\ \A e \in directory : e.req = 0 => e \in directory'
       /\ \A e1 \in directory', e2 \in directory' : e1.uid = e2.uid => e1 = e2
      ]_vars

\* C20 witness: an approve_request ended by a refused ldapadd, having issued
\* that command alone, while the directory holds under the username an
\* identity the service did not create, with its password as it was.
C20_Witness ==
    /\ last.op = "approve" /\ last.res = "Failed to create user"
    /\ last.dir = {"add"}
    /\ last.row \in pending
    /\ Existing(last.row) \in directory

\* C21: an approve_request takes its steps in the order ldapadd, ldappasswd,
\* resolve, notification.  The step that commits the APPROVED audit entry is
\* taken after both directory commands were issued and succeeded, the entry
\* having its password, and sends nothing; the step that sends or logs the
\* approval message finds the APPROVED entry of the call committed; a call
\* ends Approved in its notification only (at send_email, or at its
\* server.quit when the message was handed to the SMTP server).
C21_ApproveStepsInOrder ==
    [][\A p \in Procs :
          (Steps(p) /\ call[p].op = "approve")
          => /\ call[p].pc = "add" => Result(p).pc \in {"passwd", "done"}
             /\ call[p].pc = "passwd" => Result(p).pc \in {"resolve", "delete", "done"}
             /\ call[p].pc = "delete" => Result(p).pc = "done"
             /\ call[p].pc = "resolve" => Result(p).pc = "notify"
             /\ call[p].pc = "notify" => Result(p).pc \in {"quit", "done"}
             /\ call[p].pc = "quit" => Result(p).pc = "done"
             /\ audit' # audit
                => /\ call[p].dir = {"add", "passwd"}
                   /\ \E e \in directory :
                          e.uid = escape_ldap_dn(call[p].row.username) /\ e.pw = call[p].pw
                   /\ call[p].pw \in Passwords
                   /\ smtpSent' = smtpSent /\ emailLog' = emailLog
             /\ (smtpSent' # smtpSent \/ emailLog' # emailLog)
                => /\ \E i \in AuditOf(call[p].id) :
                          audit[i] = AuditRow(call[p].row, "APPROVED", call[p].by, Null)
                   /\ audit' = audit /\ directory' = directory
             /\ directory' # directory => call[p].pc \in {"add", "passwd", "delete"}
             /\ Result(p).res = "Approved" => call[p].pc \in {"notify", "quit"}
      ]_vars

\* C21 witness: an approve_request has ended Approved: the entry has its
\* password, the APPROVED entry is in the audit log and the approval message
\* was sent or logged.
C21_Witness ==
    /\ last.op = "approve" /\ last.res = "Approved"
    /\ \E e \in directory : e.req = last.id /\ e.pw = last.pw /\ last.pw \in Passwords
    /\ \E i \in AuditOf(last.id) : audit[i].action = "APPROVED"
    /\ \E m \in smtpSent \cup emailLog :
           m.kind = "approved" /\ m.req = last.id /\ m.text = last.pw

\* the request ids in use or used: of the pending rows and of the audit entries
UsedIds == {r.id : r \in pending} \cup {audit[i].req : i \in DOMAIN audit}

\* C22: request ids are never reused.  An INSERT gives its row an id that no
\* pending row has and no resolved request had, the counter never goes back,
\* an approve_request or reject_request started with the id of a resolved
\* request ends with NotFound, a call that loaded a row holds the row of its
\* id, and all rows and audit entries of one id are of one request.
C22_IdsNeverReused ==
    [][/\ nextId' >= nextId
       /\ \A r \in pending' \ pending :
              r.id \notin UsedIds /\ r.id = nextId /\ nextId' = nextId + 1
       /\ \A p \in Procs :
              (/\ Starts(p) /\ Result(p).op \in {"approve", "reject"}
               /\ AuditOf(Result(p).id) # {})
              => (Result(p).pc = "done" /\ Result(p).res = "NotFound")
       /\ \A p \in Procs :
              (call'[p].op \in {"approve", "reject"} /\ call'[p].row # NoRow)
              => call'[p].row.id = call'[p].id
       /\ \A i \in DOMAIN audit' :
              /\ \A j \in DOMAIN audit' :
                     audit'[i].req = audit'[j].req
                     => audit'[i].username = audit'[j].username
              /\ \A r \in pending' :
                     r.id = audit'[i].req => r.username = audit'[i].username
      ]_vars

\* C22 witness: request 1 was resolved and its row deleted, leaving the table
\* empty; the same username was submitted again and its row has id 2.
C22_Witness ==
    /\ last.op = "admit" /\ last.res = "Submitted" /\ last.row.id = 2
    /\ pending = {last.row}
    /\ \E i \in AuditOf(1) : audit[i].username = last.row.username

====
